---- MODULE Spec2Model ----
(***************************************************************************)
(* Model of the schema-to-DDL generation and database lifecycle engine of  *)
(* vdt-dashboard-backend: the SQL generator and the validator (pure        *)
(* operators), RegenerateDatabase as a step machine over a model of the    *)
(* Postgres server, and the schema service / database handler that call it *)
(* on behalf of records of the schema record store.                        *)
(***************************************************************************)
EXTENDS Integers, Sequences, FiniteSets, TLC

(***************************************************************************)
(* Data model (models.Table, models.Column, models.ForeignKey).            *)
(* An optional *int is a sequence of length 0 (nil) or 1.  The interface{} *)
(* DefaultValue is a record tagged with its dynamic type: [kind |-> "nil"],*)
(* [kind |-> "string", s], [kind |-> "bool", b], [kind |-> "number", n].   *)
(***************************************************************************)

SupportedDataTypes ==
    {"INT", "BIGINT", "VARCHAR", "TEXT", "BOOLEAN", "TIMESTAMP", "DATE",
     "TIME", "DECIMAL", "FLOAT", "DOUBLE", "JSON", "UUID"}

ValidForeignKeyActions == {"CASCADE", "RESTRICT", "SET NULL", "NO ACTION"}

NilValue == [kind |-> "nil"]

\* A column with the zero value of every field the arguments do not set.
Column(id, name, dataType, nullable, primaryKey, autoIncrement, unique) ==
    [ID |-> id, Name |-> name, DataType |-> dataType, Length |-> <<>>,
     Precision |-> <<>>, Scale |-> <<>>, Nullable |-> nullable,
     PrimaryKey |-> primaryKey, AutoIncrement |-> autoIncrement,
     Unique |-> unique, DefaultValue |-> NilValue]

Table(id, name, columns) == [ID |-> id, Name |-> name, Columns |-> columns]

ForeignKey(id, name, st, sc, tt, tc, onDelete, onUpdate) ==
    [ID |-> id, Name |-> name, SourceTableId |-> st, SourceColumnId |-> sc,
     TargetTableId |-> tt, TargetColumnId |-> tc,
     OnDelete |-> onDelete, OnUpdate |-> onUpdate]

SchemaData(tables, foreignKeys) == [Tables |-> tables, ForeignKeys |-> foreignKeys]

(***************************************************************************)
(* SQL generator.  A statement is kept as the record of the parts the Go   *)
(* code formats into the statement text, in the order it formats them.     *)
(***************************************************************************)

\* The data type mapping of generateColumnDefinition (the switch).
SqlTypeFallback(column) == "TEXT"

SqlType(column) ==
    CASE column.DataType = "INT" ->
            IF column.AutoIncrement THEN "SERIAL" ELSE "INTEGER"
      [] column.DataType = "BIGINT" ->
            IF column.AutoIncrement THEN "BIGSERIAL" ELSE "BIGINT"
      [] column.DataType = "VARCHAR" ->
            "VARCHAR(" \o ToString(IF column.Length # <<>> /\ column.Length[1] > 0
                                   THEN column.Length[1] ELSE 255) \o ")"
      [] column.DataType = "TEXT" -> "TEXT"
      [] column.DataType = "BOOLEAN" -> "BOOLEAN"
      [] column.DataType = "TIMESTAMP" -> "TIMESTAMP WITH TIME ZONE"
      [] column.DataType = "DATE" -> "DATE"
      [] column.DataType = "TIME" -> "TIME"
      [] column.DataType = "DECIMAL" ->
            "DECIMAL(" \o ToString(IF column.Precision # <<>>
                                   THEN column.Precision[1] ELSE 10)
            \o "," \o ToString(IF column.Scale # <<>>
                               THEN column.Scale[1] ELSE 2) \o ")"
      [] column.DataType = "FLOAT" -> "REAL"
      [] column.DataType = "DOUBLE" -> "DOUBLE PRECISION"
      [] column.DataType = "JSON" -> "JSONB"
      [] column.DataType = "UUID" -> "UUID"
      [] OTHER -> SqlTypeFallback(column)

\* The DEFAULT clauses of generateColumnDefinition, in the order written:
\* the explicit default (none for the empty string), then the UUID default,
\* then the TIMESTAMP default.
DefaultClauses(column) ==
    (CASE column.DefaultValue.kind = "string" ->
             IF column.DefaultValue.s # ""
             THEN <<"'" \o column.DefaultValue.s \o "'">> ELSE <<>>
       [] column.DefaultValue.kind = "bool" ->
             <<IF column.DefaultValue.b THEN "true" ELSE "false">>
       [] column.DefaultValue.kind = "number" ->
             <<ToString(column.DefaultValue.n)>>
       [] OTHER -> <<>>)
    \o (IF column.DataType = "UUID" /\ column.DefaultValue = NilValue
        THEN <<"gen_random_uuid()">> ELSE <<>>)
    \o (IF column.DataType = "TIMESTAMP" /\ column.DefaultValue = NilValue
        THEN <<"CURRENT_TIMESTAMP">> ELSE <<>>)

generateColumnDefinition(column) ==
    [name |-> column.Name,
     type |-> SqlType(column),
     notNull |-> ~column.Nullable,
     defaults |-> DefaultClauses(column)]

\* primaryKeys of GenerateCreateTables: the names of the columns flagged
\* PrimaryKey, in column order (strings.Join is kept as the sequence joined).
RECURSIVE primaryKeys(_)
primaryKeys(columns) ==
    IF columns = <<>> THEN <<>>
    ELSE (IF Head(columns).PrimaryKey THEN <<Head(columns).Name>> ELSE <<>>)
         \o primaryKeys(Tail(columns))

\* A variant of uniqueConstraints that does not leave out the primary-key
\* columns.
uniqueConstraintsAll(columns) ==
    LET flagged == SelectSeq(columns, LAMBDA column : column.Unique)
    IN [i \in 1..Len(flagged) |-> flagged[i].Name]

\* uniqueConstraints of GenerateCreateTables: one UNIQUE (name) per column
\* that is Unique and not PrimaryKey, in column order.
RECURSIVE uniqueConstraints(_)
uniqueConstraints(columns) ==
    IF columns = <<>> THEN <<>>
    ELSE (IF Head(columns).Unique /\ ~Head(columns).PrimaryKey
          THEN <<Head(columns).Name>> ELSE <<>>)
         \o uniqueConstraints(Tail(columns))

\* One CREATE TABLE statement (the body of the loop of GenerateCreateTables).
\* An empty primaryKey means that no PRIMARY KEY clause is written.
CreateTableStatement(table) ==
    [op |-> "CREATE TABLE",
     table |-> table.Name,
     columns |-> [i \in 1..Len(table.Columns) |->
                     generateColumnDefinition(table.Columns[i])],
     primaryKey |-> primaryKeys(table.Columns),
     unique |-> uniqueConstraints(table.Columns)]

\* A variant of the generator that returns the statements last table first.
GenerateCreateTablesReversed(schemaData) ==
    [i \in 1..Len(schemaData.Tables) |->
        CreateTableStatement(schemaData.Tables[Len(schemaData.Tables) + 1 - i])]

GenerateCreateTables(schemaData) ==
    [i \in 1..Len(schemaData.Tables) |-> CreateTableStatement(schemaData.Tables[i])]

\* tableMap and columnMap of GenerateForeignKeys: a Go map filled in table
\* and column order, so that the last entry written for an id stays.
RECURSIVE LastName(_, _)
LastName(entries, id) ==
    IF entries = <<>> THEN <<>>
    ELSE IF entries[Len(entries)].ID = id
         THEN <<entries[Len(entries)].Name>>
         ELSE LastName(SubSeq(entries, 1, Len(entries) - 1), id)

RECURSIVE AllColumns(_)
AllColumns(tables) ==
    IF tables = <<>> THEN <<>>
    ELSE Head(tables).Columns \o AllColumns(Tail(tables))

TableMap(schemaData, id) == LastName(schemaData.Tables, id)
ColumnMap(schemaData, id) == LastName(AllColumns(schemaData.Tables), id)

FkResolves(schemaData, fk) ==
    /\ TableMap(schemaData, fk.SourceTableId) # <<>>
    /\ TableMap(schemaData, fk.TargetTableId) # <<>>
    /\ ColumnMap(schemaData, fk.SourceColumnId) # <<>>
    /\ ColumnMap(schemaData, fk.TargetColumnId) # <<>>

\* A variant of the action that passes every given action on.
FkActionGiven(given) == IF given # "" THEN given ELSE "RESTRICT"

FkAction(given) ==
    IF given # "" /\ given \in ValidForeignKeyActions THEN given ELSE "RESTRICT"

ForeignKeyStatement(schemaData, fk) ==
    LET sourceTable == TableMap(schemaData, fk.SourceTableId)[1]
        sourceColumn == ColumnMap(schemaData, fk.SourceColumnId)[1]
    IN [op |-> "ALTER TABLE",
        table |-> sourceTable,
        constraint |-> IF fk.Name = ""
                       THEN "fk_" \o sourceTable \o "_" \o sourceColumn
                       ELSE fk.Name,
        column |-> sourceColumn,
        refTable |-> TableMap(schemaData, fk.TargetTableId)[1],
        refColumn |-> ColumnMap(schemaData, fk.TargetColumnId)[1],
        onDelete |-> FkAction(fk.OnDelete),
        onUpdate |-> FkAction(fk.OnUpdate)]

\* A variant of the loop that ends at the first foreign key it cannot
\* resolve.
ForeignKeyStatementsStop(schemaData, fks) ==
    LET bad == {k \in 1..Len(fks) : ~FkResolves(schemaData, fks[k])}
        n == IF bad = {} THEN Len(fks)
             ELSE (CHOOSE k \in bad : \A l \in bad : k <= l) - 1
    IN [k \in 1..n |-> ForeignKeyStatement(schemaData, fks[k])]

RECURSIVE ForeignKeyStatements(_, _)
ForeignKeyStatements(schemaData, fks) ==
    IF fks = <<>> THEN <<>>
    ELSE (IF FkResolves(schemaData, Head(fks))
          THEN <<ForeignKeyStatement(schemaData, Head(fks))>> ELSE <<>>)
         \o ForeignKeyStatements(schemaData, Tail(fks))

GenerateForeignKeys(schemaData) ==
    ForeignKeyStatements(schemaData, schemaData.ForeignKeys)

(***************************************************************************)
(* Validator (validatorService.ValidateSchema).                            *)
(***************************************************************************)

HasPrimaryKey(table) == \E i \in 1..Len(table.Columns) : table.Columns[i].PrimaryKey

\* models.ValidationError.  Go counts the tables and columns from 0: the
\* i-th table and j-th column of the sequences are tables[i-1].columns[j-1].
ValidationError(field, message, code) ==
    [Field |-> field, Message |-> message, Code |-> code]

DataTypeField(i, j) ==
    "tables[" \o ToString(i - 1) \o "].columns[" \o ToString(j - 1) \o "].dataType"

\* A variant of the data type check that stops at the first bad column of
\* a table.
ColumnErrorsFirst(table, i, j) ==
    LET bad == {k \in j..Len(table.Columns) :
                   table.Columns[k].DataType \notin SupportedDataTypes}
        first == CHOOSE k \in bad : \A l \in bad : k <= l
    IN IF bad = {} THEN <<>>
       ELSE <<ValidationError(DataTypeField(i, first),
                 "Unsupported data type: " \o table.Columns[first].DataType,
                 "UNSUPPORTED_DATA_TYPE")>>

RECURSIVE ColumnErrors(_, _, _)
ColumnErrors(table, i, j) ==
    IF j > Len(table.Columns) THEN <<>>
    ELSE (IF table.Columns[j].DataType \notin SupportedDataTypes
          THEN <<ValidationError(DataTypeField(i, j),
                    "Unsupported data type: " \o table.Columns[j].DataType,
                    "UNSUPPORTED_DATA_TYPE")>>
          ELSE <<>>)
         \o ColumnErrors(table, i, j + 1)

RECURSIVE TableErrors(_, _)
TableErrors(tables, i) ==
    IF i > Len(tables) THEN <<>>
    ELSE ColumnErrors(tables[i], i, 1) \o TableErrors(tables, i + 1)

RECURSIVE TableWarnings(_, _)
TableWarnings(tables, i) ==
    IF i > Len(tables) THEN <<>>
    ELSE (IF ~HasPrimaryKey(tables[i])
          THEN <<"Table '" \o tables[i].Name \o "' has no primary key defined">>
          ELSE <<>>)
         \o TableWarnings(tables, i + 1)

\* A variant of the validator for which a warning makes a schema invalid.
ValidateSchemaStrict(request) ==
    LET errors ==
            (IF Len(request.Tables) = 0
             THEN <<ValidationError("tables", "At least one table is required",
                                    "MISSING_TABLES")>>
             ELSE <<>>)
            \o TableErrors(request.Tables, 1)
        warnings == TableWarnings(request.Tables, 1)
    IN [Valid |-> Len(errors) = 0 /\ Len(warnings) = 0,
        Errors |-> errors,
        Warnings |-> warnings]

ValidateSchema(request) ==
    LET errors ==
            (IF Len(request.Tables) = 0
             THEN <<ValidationError("tables", "At least one table is required",
                                    "MISSING_TABLES")>>
             ELSE <<>>)
            \o TableErrors(request.Tables, 1)
    IN [Valid |-> Len(errors) = 0,
        Errors |-> errors,
        Warnings |-> TableWarnings(request.Tables, 1)]

(***************************************************************************)
(* Schema descriptions the requests of the model draw from.                *)
(***************************************************************************)

\* users/posts with one foreign key posts.user_id -> users.id.
SchemaBlog ==
    SchemaData(
        <<Table("t1", "users",
                <<Column("c1", "id", "INT", FALSE, TRUE, TRUE, FALSE),
                  [Column("c2", "email", "VARCHAR", FALSE, FALSE, FALSE, TRUE)
                      EXCEPT !.Length = <<255>>]>>),
          Table("t2", "posts",
                <<Column("c3", "id", "INT", FALSE, TRUE, TRUE, FALSE),
                  Column("c4", "user_id", "INT", FALSE, FALSE, FALSE, FALSE)>>)>>,
        <<ForeignKey("f1", "", "t2", "c4", "t1", "c1", "CASCADE", "RESTRICT")>>)

\* One table, no foreign key.
SchemaTags ==
    SchemaData(
        <<Table("t1", "tags",
                <<Column("c1", "id", "UUID", FALSE, TRUE, FALSE, FALSE),
                  Column("c2", "label", "TEXT", TRUE, FALSE, FALSE, FALSE)>>)>>,
        <<>>)

\* Two tables of the same SQL name: the second CREATE TABLE cannot succeed.
SchemaDup ==
    SchemaData(
        <<Table("t1", "items",
                <<Column("c1", "id", "INT", FALSE, TRUE, FALSE, FALSE)>>),
          Table("t2", "items",
                <<Column("c2", "sku", "TEXT", FALSE, FALSE, FALSE, TRUE)>>)>>,
        <<>>)

\* A column of a data type outside SupportedDataTypes.
SchemaMoney ==
    SchemaData(
        <<Table("t1", "accounts",
                <<Column("c1", "id", "INT", FALSE, TRUE, FALSE, FALSE),
                  Column("c2", "balance", "MONEY", TRUE, FALSE, FALSE, FALSE)>>)>>,
        <<>>)

(***************************************************************************)
(* The Postgres server: the databases by name.  A database is the set of   *)
(* CREATE TABLE statements and the set of ADD CONSTRAINT statements that   *)
(* have been executed in it.                                               *)
(***************************************************************************)

NoDb == [exists |-> FALSE, tables |-> {}, constraints |-> {}]
EmptyDb == [exists |-> TRUE, tables |-> {}, constraints |-> {}]

Range(seq) == {seq[i] : i \in 1..Len(seq)}

\* The database a schema description describes: all its tables and the
\* constraints of its resolvable foreign keys.
DescribedDb(schemaData) ==
    [exists |-> TRUE,
     tables |-> Range(GenerateCreateTables(schemaData)),
     constraints |-> Range(GenerateForeignKeys(schemaData))]

HasColumn(t, name) == \E i \in 1..Len(t.columns) : t.columns[i].name = name

\* Whether the server accepts a statement in database db: a table name is
\* not created twice; a foreign key needs both tables and columns, a unique
\* or sole primary-key target column and a constraint name new to its table.
StatementAccepted(db, stmt) ==
    /\ db.exists
    /\ IF stmt.op = "CREATE TABLE"
       THEN \A t \in db.tables : t.table # stmt.table
       ELSE /\ \E t \in db.tables : t.table = stmt.table /\ HasColumn(t, stmt.column)
            /\ \E t \in db.tables :
                  /\ t.table = stmt.refTable
                  /\ HasColumn(t, stmt.refColumn)
                  /\ \/ t.primaryKey = <<stmt.refColumn>>
                     \/ stmt.refColumn \in Range(t.unique)
            /\ \A k \in db.constraints :
                  ~(k.table = stmt.table /\ k.constraint = stmt.constraint)

ApplyStatement(db, stmt) ==
    IF stmt.op = "CREATE TABLE"
    THEN [db EXCEPT !.tables = @ \cup {stmt}]
    ELSE [db EXCEPT !.constraints = @ \cup {stmt}]

(***************************************************************************)
(* RegenerateDatabase as a step machine.  A call is at one of the states   *)
(* idle, dropping, creating, connecting, executing-tables, executing-fks,  *)
(* done, error; every step is one round trip to the server (or the end of  *)
(* a statement loop), whose outcome the environment may fail (envOk).      *)
(***************************************************************************)

\* Two calls (two requests being served) at a time: the case the properties
\* about calls that overlap are stated for.
Calls == {1, 2}
DbNames == {"schema_a", "schema_b"}
LifecycleSchemas == {SchemaBlog, SchemaTags, SchemaDup}

\* Target databases as a regeneration may find them: absent, built from an
\* older description, or partially built by a failed attempt.
PartialDb == [EmptyDb EXCEPT !.tables = {GenerateCreateTables(SchemaBlog)[1]}]

PriorDbs == {NoDb, DescribedDb(SchemaTags), PartialDb}

NoArg == [schemaData |-> SchemaData(<<>>, <<>>), databaseName |-> ""]
NoError == [msg |-> "", statement |-> <<>>]

\* The record store (table schemas): schema id -> row.  A row that was never
\* inserted is NoSchema.  The fields are those of models.Schema the service
\* reads or writes; Deleted is DeletedAt (the soft delete).
Users == {"u1", "u2"}
SchemaIds == {"s1", "s2"}
SchemaNames == {"shop", "blog"}

Schema(id, name, userID, databaseName, status, schemaDefinition) ==
    [ID |-> id, Name |-> name, UserID |-> userID, DatabaseName |-> databaseName,
     Status |-> status, SchemaDefinition |-> schemaDefinition, Deleted |-> FALSE]

NoSchema == Schema("", "", "", "", "", SchemaData(<<>>, <<>>))

VARIABLES
    dbs,        \* the server: database name -> database
    pc,         \* call -> state of the call
    arg,        \* call -> [schemaData, databaseName] it was called with
    conn,       \* call -> "none" | "open" | "broken": its connection db
    idx,        \* call -> position in the statement loop it is in
    result,     \* call -> the error it returned (NoError: none)
    log,        \* call -> the round trips it made: <<[stmt, ok]>>
    trace,      \* call -> the states it has been in, in order
    db0,        \* call -> its target database as it was when the call began
    peers,      \* call -> the calls that were in flight while it was
    store,      \* the record store: schema id -> row
    op,         \* request -> the service operation it runs ("none": none)
    phase,      \* request -> "idle" | "persist" | "regenerating" | "returned"
    schema,     \* request -> the *models.Schema the operation holds
    resp,       \* request -> "none" | "ok" | "error": what it returned
    input,      \* the schema description handed to the generator / validator
    generated,  \* the outputs of the generator invocations on it, in order
    validated,  \* the results of the validator invocations on it, in order
    caller,     \* request -> the user the middleware put in its context ("": none)
    reply,      \* request -> the rows and the database status it was answered
    served      \* the number of requests that passed the middleware

svcVars == <<store, op, phase, schema, resp>>
genVars == <<input, generated, validated>>
ctxVars == <<caller, reply, served>>
lifecycleVars == <<dbs, pc, arg, conn, idx, result, log, trace, db0, peers>>
vars == <<dbs, pc, arg, conn, idx, result, log, trace, db0, peers,
          store, op, phase, schema, resp, input, generated, validated,
          caller, reply, served>>

InFlight(c) == pc[c] \notin {"idle", "done", "error"}

DropStatement(name) == [op |-> "DROP DATABASE IF EXISTS", database |-> name]
CreateStatement(name) == [op |-> "CREATE DATABASE", database |-> name]
ConnectRequest(name) == [op |-> "CONNECT", database |-> name]

\* Variants with a slip in the error handling, to test the properties below.
AfterDropFatal(ok) == IF ok THEN "creating" ELSE "error"
AfterCreateIgnored(ok) == "connecting"
AfterTableStatementIgnored(ok) == "executing-tables"
AfterForeignKeyStatementIgnored(ok) == "executing-fks"
StatementErrorBare(msg, stmt) == [msg |-> msg, statement |-> <<>>]

\* A variant of the drop that does not keep to the database named.
DropDynamicDatabaseAll(server, databaseName) == [n \in DOMAIN server |-> NoDb]

\* A variant of the drop that tries again when it fails.
AfterDropRetry(ok) == IF ok THEN "creating" ELSE "dropping"

\* A variant of the connect that tries again when it fails.
AfterConnectRetry(ok) == IF ok THEN "executing-tables" ELSE "connecting"

\* A variant of the error return that rolls the target database back.
OnStatementErrorRollback(server, databaseName) ==
    [server EXCEPT ![databaseName] = NoDb]

\* A variant of the entry that admits one call per database name at a time.
AdmittedExclusive(c, databaseName) ==
    \A d \in Calls \ {c} : ~(InFlight(d) /\ arg[d].databaseName = databaseName)

\* The effect on the server of a DROP DATABASE IF EXISTS / CREATE DATABASE
\* that succeeds.
DropDynamicDatabase(server, databaseName) == [server EXCEPT ![databaseName] = NoDb]
CreateDynamicDatabase(server, databaseName) == [server EXCEPT ![databaseName] = EmptyDb]

\* The server after a statement failed: RegenerateDatabase returns the error
\* and does nothing else to the database.
OnStatementError(server, databaseName) == server

\* RegenerateDatabase takes no lock and waits for no other call: a call is
\* admitted whatever the other calls are doing.
Admitted(c, databaseName) == TRUE

\* Where the call goes after each round trip, by its outcome.
AfterDrop(ok) == "creating"
AfterCreate(ok) == IF ok THEN "connecting" ELSE "error"
AfterConnect(ok) == IF ok THEN "executing-tables" ELSE "error"
AfterTableStatement(ok) == IF ok THEN "executing-tables" ELSE "error"
AfterForeignKeyStatement(ok) == IF ok THEN "executing-fks" ELSE "error"

\* The error a failed statement returns: its message and the statement.
StatementError(msg, stmt) == [msg |-> msg, statement |-> <<stmt>>]

Goto(c, state) ==
    /\ pc' = [pc EXCEPT ![c] = state]
    /\ trace' = [trace EXCEPT ![c] = IF state = pc[c] THEN @ ELSE Append(@, state)]

Logged(c, stmt, ok) == log' = [log EXCEPT ![c] = Append(@, [stmt |-> stmt, ok |-> ok])]

\* Nothing has been handed to the generator or the validator.
NoInput == SchemaData(<<>>, <<>>)

GeneratorIdle ==
    /\ input = NoInput
    /\ generated = <<>>
    /\ validated = <<>>

\* What a request was answered with, next to its status code: the rows (of
\* GetSchema, ListSchemas, ExportSQL), the models.DatabaseStatus, and the id
\* (of DeleteSchema), if any.
NoReply == [schemas |-> {}, status |-> <<>>, id |-> ""]

\* No request is being served.
RequestsInit ==
    /\ op = [c \in Calls |-> "none"]
    /\ phase = [c \in Calls |-> "idle"]
    /\ schema = [c \in Calls |-> NoSchema]
    /\ resp = [c \in Calls |-> "none"]
    /\ caller = [c \in Calls |-> ""]
    /\ reply = [c \in Calls |-> NoReply]
    /\ served = 0

\* No call of RegenerateDatabase has begun.
CallsInit ==
    /\ pc = [c \in Calls |-> "idle"]
    /\ arg = [c \in Calls |-> NoArg]
    /\ conn = [c \in Calls |-> "none"]
    /\ idx = [c \in Calls |-> 0]
    /\ result = [c \in Calls |-> NoError]
    /\ log = [c \in Calls |-> <<>>]
    /\ trace = [c \in Calls |-> <<"idle">>]
    /\ db0 = [c \in Calls |-> NoDb]
    /\ peers = [c \in Calls |-> {}]

LifecycleInit ==
    /\ dbs \in [DbNames -> PriorDbs]
    /\ store = [id \in SchemaIds |-> NoSchema]
    /\ RequestsInit
    /\ CallsInit
    /\ GeneratorIdle

\* RegenerateDatabase(schemaData, databaseName) is called.
Begin(c, schemaData, databaseName) ==
    /\ pc[c] = "idle"
    /\ Admitted(c, databaseName)
    /\ arg' = [arg EXCEPT ![c] = [schemaData |-> schemaData,
                                  databaseName |-> databaseName]]
    /\ db0' = [db0 EXCEPT ![c] = dbs[databaseName]]
    /\ peers' = [d \in Calls |->
          IF d = c THEN {e \in Calls \ {c} : InFlight(e)}
          ELSE IF InFlight(d) THEN peers[d] \cup {c} ELSE peers[d]]
    /\ Goto(c, "dropping")
    /\ UNCHANGED <<dbs, conn, idx, result, log>>

\* DropDatabase: DROP DATABASE IF EXISTS; a failure is logged and ignored.
\* A dropped database takes the connections open to it with it.
DropStep(c) ==
    /\ pc[c] = "dropping"
    /\ \E envOk \in BOOLEAN :
          LET name == arg[c].databaseName IN
          /\ Logged(c, DropStatement(name), envOk)
          /\ dbs' = IF envOk THEN DropDynamicDatabase(dbs, name) ELSE dbs
          /\ conn' = IF envOk
                     THEN [d \in Calls |->
                             IF conn[d] = "open" /\ arg[d].databaseName = name
                             THEN "broken" ELSE conn[d]]
                     ELSE conn
          /\ Goto(c, AfterDrop(envOk))
    /\ UNCHANGED <<arg, idx, result, db0, peers, svcVars, genVars, ctxVars>>

\* CreateDatabase: CREATE DATABASE fails when the name exists.
CreateStep(c) ==
    /\ pc[c] = "creating"
    /\ \E envOk \in BOOLEAN :
          LET name == arg[c].databaseName
              ok == envOk /\ ~dbs[name].exists
          IN /\ Logged(c, CreateStatement(name), ok)
             /\ dbs' = IF ok THEN CreateDynamicDatabase(dbs, name) ELSE dbs
             /\ result' = [result EXCEPT ![c] =
                              IF ok THEN @
                              ELSE [msg |-> "failed to create database",
                                    statement |-> <<>>]]
             /\ Goto(c, AfterCreate(ok))
    /\ UNCHANGED <<arg, conn, idx, db0, peers, svcVars, genVars, ctxVars>>

\* gorm.Open on the target database.
ConnectStep(c) ==
    /\ pc[c] = "connecting"
    /\ \E envOk \in BOOLEAN :
          LET name == arg[c].databaseName
              ok == envOk /\ dbs[name].exists
          IN /\ Logged(c, ConnectRequest(name), ok)
             /\ conn' = IF ok THEN [conn EXCEPT ![c] = "open"] ELSE conn
             /\ idx' = [idx EXCEPT ![c] = 1]
             /\ result' = [result EXCEPT ![c] =
                              IF ok THEN @
                              ELSE [msg |-> "failed to connect to new database",
                                    statement |-> <<>>]]
             /\ Goto(c, AfterConnect(ok))
    /\ UNCHANGED <<dbs, arg, db0, peers, svcVars, genVars, ctxVars>>

\* Whether db.Exec(stmt) of call c succeeds, the environment permitting.
ExecOk(c, stmt, envOk) ==
    /\ envOk
    /\ conn[c] = "open"
    /\ StatementAccepted(dbs[arg[c].databaseName], stmt)

\* db.Exec(statement) of one iteration of a statement loop.
Exec(c, stmt, ok, msg, next) ==
    /\ Logged(c, stmt, ok)
    /\ dbs' = IF ok THEN [dbs EXCEPT ![arg[c].databaseName] = ApplyStatement(@, stmt)]
              ELSE OnStatementError(dbs, arg[c].databaseName)
    /\ idx' = [idx EXCEPT ![c] = @ + 1]
    /\ result' = [result EXCEPT ![c] = IF ok THEN @ ELSE StatementError(msg, stmt)]
    /\ Goto(c, next)

\* The loop over tableStatements: the next statement, or the end of the loop.
TableStep(c) ==
    /\ pc[c] = "executing-tables"
    /\ LET tableStatements == GenerateCreateTables(arg[c].schemaData) IN
       IF idx[c] <= Len(tableStatements)
       THEN \E envOk \in BOOLEAN :
               LET stmt == tableStatements[idx[c]]
                   ok == ExecOk(c, stmt, envOk)
               IN Exec(c, stmt, ok, "failed to execute table statement",
                       AfterTableStatement(ok))
       ELSE /\ idx' = [idx EXCEPT ![c] = 1]
            /\ Goto(c, "executing-fks")
            /\ UNCHANGED <<dbs, result, log>>
    /\ UNCHANGED <<arg, conn, db0, peers, svcVars, genVars, ctxVars>>

\* The loop over fkStatements: the next statement, or the successful return.
ForeignKeyStep(c) ==
    /\ pc[c] = "executing-fks"
    /\ LET fkStatements == GenerateForeignKeys(arg[c].schemaData) IN
       IF idx[c] <= Len(fkStatements)
       THEN \E envOk \in BOOLEAN :
               LET stmt == fkStatements[idx[c]]
                   ok == ExecOk(c, stmt, envOk)
               IN Exec(c, stmt, ok, "failed to execute foreign key statement",
                       AfterForeignKeyStatement(ok))
       ELSE /\ Goto(c, "done")
            /\ UNCHANGED <<dbs, idx, result, log>>
    /\ UNCHANGED <<arg, conn, db0, peers, svcVars, genVars, ctxVars>>

RegenerateStep(c) ==
    \/ DropStep(c)
    \/ CreateStep(c)
    \/ ConnectStep(c)
    \/ TableStep(c)
    \/ ForeignKeyStep(c)

\* A caller invokes RegenerateDatabase directly.
Call(c) ==
    \E schemaData \in LifecycleSchemas, databaseName \in DbNames :
        Begin(c, schemaData, databaseName) /\ UNCHANGED <<svcVars, genVars, ctxVars>>

Next == \E c \in Calls : Call(c) \/ RegenerateStep(c)

Spec == LifecycleInit /\ [][Next]_vars

\* Every round trip eventually returns: a call that has a step to take
\* takes it.  (RegenerateDatabase runs on the goroutine of its request; no
\* context or deadline is passed to it.)
Fairness == \A c \in Calls : WF_vars(RegenerateStep(c))

\* The calls under fairness, from a server with one database present
\* (partially built) and one absent.
FairInit ==
    /\ LifecycleInit
    /\ dbs = [n \in DbNames |-> IF n = "schema_a" THEN PartialDb ELSE NoDb]

FairSpec == FairInit /\ [][Next]_vars /\ Fairness

(***************************************************************************)
(* The schema service and the database handler: the operations that call   *)
(* RegenerateDatabase on behalf of a row of the record store.  Request r   *)
(* runs its call of RegenerateDatabase as call r.  Every step is one round *)
(* trip to the record store, whose outcome the environment may fail.       *)
(***************************************************************************)

\* Bodies a CreateSchema / UpdateSchema request can carry.  The binding of
\* the request (Tables: required, min=1) admits no body without a table.
ServiceSchemas == {SchemaTags, SchemaMoney}

\* databaseName := "schema_" + a new uuid: a name no other row has.
DatabaseNameOf(id) == IF id = "s1" THEN "schema_a" ELSE "schema_b"

\* uuid.New(): an id no row and no request in progress has.
FreshIds ==
    {id \in SchemaIds : store[id].ID = "" /\ \A r \in Calls : schema[r].ID # id}

\* (GetByIDAny is a variant of the lookup by id that leaves the user out.)
\* First(&schema) with its WHERE clause: the rows found (soft-deleted rows
\* are not), as a sequence of at most one row / as the set of candidates.
GetByIDAny(rows, id, userID) ==
    IF rows[id].ID = id /\ ~rows[id].Deleted THEN <<rows[id]>> ELSE <<>>

GetByIDAndUserID(rows, id, userID) ==
    IF rows[id].ID = id /\ rows[id].UserID = userID /\ ~rows[id].Deleted
    THEN <<rows[id]>> ELSE <<>>

GetByNameAndUserID(rows, name, userID) ==
    {rows[id] : id \in {i \in SchemaIds :
        rows[i].ID = i /\ rows[i].Name = name /\ rows[i].UserID = userID
        /\ ~rows[i].Deleted}}

GetSchema(rows, id, userID) == GetByIDAndUserID(rows, id, userID)

\* A variant of the constraints that admits every row.
UniqueAmongNone(rows, row) == TRUE

\* unique_schema_name_per_user and unique_database_name_per_user: whether
\* the row may be written next to the other rows.
UniqueAmong(rows, row) ==
    \A i \in SchemaIds \ {row.ID} :
        rows[i].ID = i /\ rows[i].UserID = row.UserID
        => rows[i].Name # row.Name /\ rows[i].DatabaseName # row.DatabaseName

\* A variant of the insert that writes nothing.
CreateNothing(rows, row) == rows

\* db.Create(schema) / db.Save(schema): the whole row is written.
Create(rows, row) == [rows EXCEPT ![row.ID] = row]
Update(rows, row) == [rows EXCEPT ![row.ID] = row]

\* The status the service writes after RegenerateDatabase returned.
StatusAfter(operation, failed) ==
    IF failed THEN "error"
    ELSE IF operation = "CreateSchema" THEN "created" ELSE "updated"

Return(r, response) ==
    /\ phase' = [phase EXCEPT ![r] = "returned"]
    /\ resp' = [resp EXCEPT ![r] = response]

Idle(r) == phase[r] = "idle" /\ pc[r] = "idle"

\* CreateSchema up to the new *models.Schema: the name check.  The name is
\* taken for used when the lookup returns no error, so that a lookup that
\* fails lets the request go on.
CreateSchemaCheck(r, userID, name, schemaData) ==
    /\ UNCHANGED <<genVars, ctxVars>>
    /\ Idle(r)
    /\ op' = [op EXCEPT ![r] = "CreateSchema"]
    /\ \E envOk \in BOOLEAN :
       IF envOk /\ GetByNameAndUserID(store, name, userID) # {}
       THEN /\ Return(r, "error")
            /\ UNCHANGED schema
       ELSE \E id \in FreshIds :
            /\ schema' = [schema EXCEPT ![r] =
                  Schema(id, name, userID, DatabaseNameOf(id), "creating", schemaData)]
            /\ phase' = [phase EXCEPT ![r] = "persist"]
            /\ UNCHANGED resp
    /\ UNCHANGED <<store, lifecycleVars>>

\* s.repo.Create(schema), then the call of RegenerateDatabase.
CreateSchemaPersist(r) ==
    /\ UNCHANGED <<genVars, ctxVars>>
    /\ op[r] = "CreateSchema" /\ phase[r] = "persist"
    /\ \E envOk \in BOOLEAN :
          IF envOk /\ UniqueAmong(store, schema[r])
          THEN /\ store' = Create(store, schema[r])
               /\ phase' = [phase EXCEPT ![r] = "regenerating"]
               /\ Begin(r, schema[r].SchemaDefinition, schema[r].DatabaseName)
               /\ UNCHANGED resp
          ELSE /\ Return(r, "error")
               /\ UNCHANGED <<store, lifecycleVars>>
    /\ UNCHANGED <<op, schema>>

\* After RegenerateDatabase returned: the status is set and written with
\* s.repo.Update(schema), whose failure is dropped (after a failed
\* regeneration) or only logged (after a successful one).
Finish(r) ==
    /\ UNCHANGED <<genVars, ctxVars>>
    /\ phase[r] = "regenerating" /\ pc[r] \in {"done", "error"}
    /\ LET failed == pc[r] = "error"
           row == [schema[r] EXCEPT !.Status = StatusAfter(op[r], failed)]
       IN /\ schema' = [schema EXCEPT ![r] = row]
          /\ \E envOk \in BOOLEAN :
                store' = IF envOk /\ UniqueAmong(store, row)
                         THEN Update(store, row) ELSE store
          /\ Return(r, IF failed THEN "error" ELSE "ok")
    /\ UNCHANGED <<op, lifecycleVars>>

CreateSchemaFinish(r) == op[r] = "CreateSchema" /\ Finish(r)

CreateSchema(r) ==
    \/ \E userID \in Users, name \in SchemaNames, schemaData \in ServiceSchemas :
          CreateSchemaCheck(r, userID, name, schemaData)
    \/ CreateSchemaPersist(r)
    \/ CreateSchemaFinish(r)

\* UpdateSchema up to the changed *models.Schema: the row is read and the
\* new name is checked against the user's other rows (a lookup by name that
\* fails lets the request go on).
UpdateSchemaLoad(r, id, userID, name, schemaData) ==
    /\ UNCHANGED <<genVars, ctxVars>>
    /\ Idle(r)
    /\ op' = [op EXCEPT ![r] = "UpdateSchema"]
    /\ \E envOk \in BOOLEAN :
       LET found == GetByIDAndUserID(store, id, userID) IN
       IF found = <<>>
       THEN /\ Return(r, "error")
            /\ UNCHANGED schema
       ELSE IF /\ found[1].Name # name
               /\ envOk
               /\ \E existing \in GetByNameAndUserID(store, name, userID) :
                     existing.ID # id
       THEN /\ Return(r, "error")
            /\ UNCHANGED schema
       ELSE /\ schema' = [schema EXCEPT ![r] =
                  [found[1] EXCEPT !.Name = name, !.Status = "updating",
                                   !.SchemaDefinition = schemaData]]
            /\ phase' = [phase EXCEPT ![r] = "persist"]
            /\ UNCHANGED resp
    /\ UNCHANGED <<store, lifecycleVars>>

\* s.repo.Update(schema), then the call of RegenerateDatabase.
UpdateSchemaPersist(r) ==
    /\ UNCHANGED <<genVars, ctxVars>>
    /\ op[r] = "UpdateSchema" /\ phase[r] = "persist"
    /\ \E envOk \in BOOLEAN :
          IF envOk /\ UniqueAmong(store, schema[r])
          THEN /\ store' = Update(store, schema[r])
               /\ phase' = [phase EXCEPT ![r] = "regenerating"]
               /\ Begin(r, schema[r].SchemaDefinition, schema[r].DatabaseName)
               /\ UNCHANGED resp
          ELSE /\ Return(r, "error")
               /\ UNCHANGED <<store, lifecycleVars>>
    /\ UNCHANGED <<op, schema>>

UpdateSchemaFinish(r) == op[r] = "UpdateSchema" /\ Finish(r)

UpdateSchema(r) ==
    \/ \E id \in SchemaIds, userID \in Users, name \in SchemaNames,
          schemaData \in ServiceSchemas :
          UpdateSchemaLoad(r, id, userID, name, schemaData)
    \/ UpdateSchemaPersist(r)
    \/ UpdateSchemaFinish(r)

\* DatabaseHandler.RegenerateDatabase (POST /schemas/:id/database/regenerate)
\* up to its call of RegenerateDatabase: the row is read.
RegenerateLoad(r, id, userID) ==
    /\ UNCHANGED <<genVars, ctxVars>>
    /\ Idle(r)
    /\ op' = [op EXCEPT ![r] = "Regenerate"]
    /\ LET found == GetSchema(store, id, userID) IN
       IF found = <<>>
       THEN /\ Return(r, "error")
            /\ UNCHANGED <<schema, lifecycleVars>>
       ELSE /\ schema' = [schema EXCEPT ![r] = found[1]]
            /\ phase' = [phase EXCEPT ![r] = "regenerating"]
            /\ Begin(r, found[1].SchemaDefinition, found[1].DatabaseName)
            /\ UNCHANGED resp
    /\ UNCHANGED store

\* The handler answers 500 or 200; it writes nothing to the record store.
RegenerateRespond(r) ==
    /\ UNCHANGED <<genVars, ctxVars>>
    /\ op[r] = "Regenerate"
    /\ phase[r] = "regenerating" /\ pc[r] \in {"done", "error"}
    /\ Return(r, IF pc[r] = "error" THEN "error" ELSE "ok")
    /\ UNCHANGED <<store, op, schema, lifecycleVars>>

RegenerateDatabaseHandler(r) ==
    \/ \E id \in SchemaIds, userID \in Users : RegenerateLoad(r, id, userID)
    \/ RegenerateRespond(r)

\* The record store and the server as the requests may find them: no row;
\* or the row of a schema created before, with its database.
ExistingSchema == Schema("s1", "shop", "u1", "schema_a", "created", SchemaBlog)

ServiceInit ==
    /\ \/ /\ store = [id \in SchemaIds |-> NoSchema]
          /\ dbs = [n \in DbNames |-> NoDb]
       \/ /\ store = [id \in SchemaIds |->
                        IF id = "s1" THEN ExistingSchema ELSE NoSchema]
          /\ dbs = [n \in DbNames |->
                        IF n = "schema_a" THEN DescribedDb(SchemaBlog) ELSE NoDb]
    /\ RequestsInit
    /\ CallsInit
    /\ GeneratorIdle

ServiceNext ==
    \E r \in Calls :
        \/ CreateSchema(r)
        \/ UpdateSchema(r)
        \/ RegenerateDatabaseHandler(r)
        \/ RegenerateStep(r)

SpecService == ServiceInit /\ [][ServiceNext]_vars

(***************************************************************************)
(* Requests served one after the other.  A request passes the              *)
(* authentication middleware, which puts its user into the context, and    *)
(* then runs one handler to its answer; the next request arrives when the  *)
(* answer is out.  All requests run as request Worker.                     *)
(***************************************************************************)

MaxRequests == 3
Worker == 1

\* DeleteByIDAndUserID: the soft delete of the row found, if one is found.
DeleteByIDAndUserID(rows, id, userID) ==
    IF GetByIDAndUserID(rows, id, userID) # <<>>
    THEN [rows EXCEPT ![id].Deleted = TRUE] ELSE rows

\* ListByUserID: the rows of the user that are not deleted.
ListByUserID(rows, userID) ==
    {rows[id] : id \in {i \in SchemaIds :
        rows[i].ID = i /\ rows[i].UserID = userID /\ ~rows[i].Deleted}}

CountTables(name) == [op |-> "COUNT TABLES", database |-> name]

\* A variant of the status that calls every database healthy.
ProbeStatusHealthy(connected) == "healthy"

\* The status GetDatabaseStatus reports, by the outcome of gorm.Open.
ProbeStatus(connected) == IF connected THEN "healthy" ELSE "error"

\* databaseManagerService.GetDatabaseStatus: the status record, by the
\* outcome of gorm.Open and of the count query.
GetDatabaseStatus(server, databaseName, connected, counted) ==
    [DatabaseName |-> databaseName,
     Status |-> ProbeStatus(connected),
     TableCount |-> IF connected /\ counted
                    THEN Cardinality(server[databaseName].tables) ELSE 0,
     SchemaID |-> ""]

\* AuthMiddleware: the request is given the slot of the request answered
\* before it, and its user is put into the context.
Arrive(r, userID) ==
    /\ served < MaxRequests
    /\ phase[r] = "returned" \/ (phase[r] = "idle" /\ caller[r] = "")
    /\ served' = served + 1
    /\ caller' = [caller EXCEPT ![r] = userID]
    /\ reply' = [reply EXCEPT ![r] = NoReply]
    /\ op' = [op EXCEPT ![r] = "none"]
    /\ phase' = [phase EXCEPT ![r] = "idle"]
    /\ schema' = [schema EXCEPT ![r] = NoSchema]
    /\ resp' = [resp EXCEPT ![r] = "none"]
    /\ pc' = [pc EXCEPT ![r] = "idle"]
    /\ arg' = [arg EXCEPT ![r] = NoArg]
    /\ conn' = [conn EXCEPT ![r] = "none"]
    /\ idx' = [idx EXCEPT ![r] = 0]
    /\ result' = [result EXCEPT ![r] = NoError]
    /\ log' = [log EXCEPT ![r] = <<>>]
    /\ trace' = [trace EXCEPT ![r] = <<"idle">>]
    /\ db0' = [db0 EXCEPT ![r] = NoDb]
    /\ peers' = [peers EXCEPT ![r] = {}]
    /\ UNCHANGED <<dbs, store, genVars>>

\* The request is in a handler that has not begun.
Arrived(r) == caller[r] # "" /\ Idle(r)

\* A handler that reads rows and answers with them.
Answer(r, operation, rows) ==
    /\ Arrived(r)
    /\ op' = [op EXCEPT ![r] = operation]
    /\ reply' = [reply EXCEPT ![r].schemas = rows]
    /\ UNCHANGED <<store, schema, caller, served, lifecycleVars, genVars>>

\* SchemaHandler.GetSchema (GET /schemas/:id).
GetSchemaHandler(r, id) ==
    LET found == GetSchema(store, id, caller[r]) IN
    /\ Answer(r, "GetSchema", Range(found))
    /\ Return(r, IF found = <<>> THEN "error" ELSE "ok")

\* SchemaHandler.ExportSQL (GET /schemas/:id/export/sql).
ExportSQL(r, id) ==
    LET found == GetByIDAndUserID(store, id, caller[r]) IN
    /\ Answer(r, "ExportSQL", Range(found))
    /\ Return(r, IF found = <<>> THEN "error" ELSE "ok")

\* SchemaHandler.ListSchemas (GET /schemas).
ListSchemas(r) ==
    \E envOk \in BOOLEAN :
        /\ Answer(r, "ListSchemas",
                  IF envOk THEN ListByUserID(store, caller[r]) ELSE {})
        /\ Return(r, IF envOk THEN "ok" ELSE "error")

\* SchemaHandler.DeleteSchema (DELETE /schemas/:id): the row is deleted
\* softly; a request that finds no row is answered as one that does.
DeleteSchema(r, id) ==
    /\ Arrived(r)
    /\ op' = [op EXCEPT ![r] = "DeleteSchema"]
    /\ \E envOk \in BOOLEAN :
          /\ store' = IF envOk THEN DeleteByIDAndUserID(store, id, caller[r])
                      ELSE store
          /\ reply' = [reply EXCEPT ![r].id = IF envOk THEN id ELSE ""]
          /\ Return(r, IF envOk THEN "ok" ELSE "error")
    /\ UNCHANGED <<schema, caller, served, lifecycleVars, genVars>>

\* DatabaseHandler.GetDatabaseStatus (GET /schemas/:id/database/status):
\* the row is read, the database of the row is connected to and its tables
\* are counted.
GetDatabaseStatusHandler(r, id) ==
    /\ Arrived(r)
    /\ op' = [op EXCEPT ![r] = "GetDatabaseStatus"]
    /\ LET found == GetSchema(store, id, caller[r]) IN
       IF found = <<>>
       THEN /\ Return(r, "error")
            /\ UNCHANGED <<schema, reply, log>>
       ELSE \E envOk \in BOOLEAN, counted \in BOOLEAN :
            LET name == found[1].DatabaseName
                connected == envOk /\ dbs[name].exists
                status == GetDatabaseStatus(dbs, name, connected, counted)
            IN
            /\ schema' = [schema EXCEPT ![r] = found[1]]
            /\ log' = [log EXCEPT ![r] =
                  <<[stmt |-> ConnectRequest(name), ok |-> connected]>>
                  \o (IF connected
                      THEN <<[stmt |-> CountTables(name), ok |-> counted]>>
                      ELSE <<>>)]
            /\ reply' = [reply EXCEPT ![r].status =
                  <<[status EXCEPT !.SchemaID = found[1].ID]>>]
            /\ Return(r, "ok")
    /\ UNCHANGED <<store, caller, served, genVars>>
    /\ UNCHANGED <<dbs, pc, arg, conn, idx, result, trace, db0, peers>>

\* The handlers of the schema service, with the user of the context.
CreateSchemaRequest(r) ==
    \E name \in SchemaNames, schemaData \in ServiceSchemas :
        Arrived(r) /\ CreateSchemaCheck(r, caller[r], name, schemaData)

UpdateSchemaRequest(r) ==
    \E id \in SchemaIds, name \in SchemaNames, schemaData \in ServiceSchemas :
        Arrived(r) /\ UpdateSchemaLoad(r, id, caller[r], name, schemaData)

RegenerateRequest(r) ==
    \E id \in SchemaIds : Arrived(r) /\ RegenerateLoad(r, id, caller[r])

RequestsNext ==
    \/ \E userID \in Users : Arrive(Worker, userID)
    \/ CreateSchemaRequest(Worker)
    \/ CreateSchemaPersist(Worker)
    \/ CreateSchemaFinish(Worker)
    \/ UpdateSchemaRequest(Worker)
    \/ UpdateSchemaPersist(Worker)
    \/ UpdateSchemaFinish(Worker)
    \/ RegenerateRequest(Worker)
    \/ RegenerateRespond(Worker)
    \/ RegenerateStep(Worker)
    \/ \E id \in SchemaIds : GetSchemaHandler(Worker, id)
    \/ \E id \in SchemaIds : ExportSQL(Worker, id)
    \/ ListSchemas(Worker)
    \/ \E id \in SchemaIds : DeleteSchema(Worker, id)
    \/ \E id \in SchemaIds : GetDatabaseStatusHandler(Worker, id)

SpecRequests == ServiceInit /\ [][RequestsNext]_vars

(***************************************************************************)
(* The generator and the validator invoked on a schema description: the    *)
(* description is given once and the two are invoked on it, the generator  *)
(* several times.                                                          *)
(***************************************************************************)

MaxTables == 2
MaxColumns == 2
MaxForeignKeys == 2
MaxInvocations == 2

SeqsUpTo(S, n) == UNION {[1..k -> S] : k \in 0..n}

\* Descriptions by structure: up to MaxTables tables of up to MaxColumns
\* columns, a column being a primary-key column, a unique column or a
\* column of an unsupported data type.  Ids and names go by position.
ColumnShapes ==
    {[DataType |-> "INT", PrimaryKey |-> TRUE, Unique |-> FALSE],
     [DataType |-> "TEXT", PrimaryKey |-> FALSE, Unique |-> TRUE],
     [DataType |-> "MONEY", PrimaryKey |-> FALSE, Unique |-> FALSE]}

ShapedColumn(shape, i, j) ==
    Column("t" \o ToString(i) \o "c" \o ToString(j), "col" \o ToString(j),
           shape.DataType, FALSE, shape.PrimaryKey, FALSE, shape.Unique)

ShapedTable(shapes, i) ==
    Table("t" \o ToString(i), "table" \o ToString(i),
          [j \in 1..Len(shapes) |-> ShapedColumn(shapes[j], i, j)])

StructuredInputs ==
    {SchemaData([i \in 1..Len(tables) |-> ShapedTable(tables[i], i)], <<>>) :
        tables \in SeqsUpTo(SeqsUpTo(ColumnShapes, MaxColumns), MaxTables)}

\* Descriptions of one table of one column, by data type, default value
\* and key flags.
DefaultValues ==
    {NilValue, [kind |-> "string", s |-> ""], [kind |-> "string", s |-> "now"],
     [kind |-> "bool", b |-> TRUE], [kind |-> "bool", b |-> FALSE],
     [kind |-> "number", n |-> 0], [kind |-> "number", n |-> 42]}

ColumnInputs ==
    {SchemaData(<<Table("t1", "things",
          <<[Column("c1", "value", dataType, FALSE, primaryKey, FALSE, unique)
                EXCEPT !.DefaultValue = defaultValue]>>)>>, <<>>) :
        dataType \in {"UUID", "TIMESTAMP", "VARCHAR", "INT", "MONEY"},
        defaultValue \in DefaultValues,
        primaryKey \in BOOLEAN, unique \in BOOLEAN}

\* Descriptions with the tables of SchemaBlog and up to MaxForeignKeys
\* foreign keys: resolvable, or dangling in a table id or a column id.
ForeignKeyPool ==
    {ForeignKey("f1", "", "t2", "c4", "t1", "c1", "CASCADE", "RESTRICT"),
     ForeignKey("f2", "fk_gone", "t2", "c4", "t9", "c1", "", ""),
     ForeignKey("f3", "", "t2", "c9", "t1", "c1", "SET NULL", "CASCADE"),
     ForeignKey("f4", "fk_named", "t2", "c3", "t1", "c2", "DROP", "")}

ForeignKeyInputs ==
    {SchemaData(SchemaBlog.Tables, foreignKeys) :
        foreignKeys \in SeqsUpTo(ForeignKeyPool, MaxForeignKeys)}

\* Descriptions whose foreign keys name a column of another table than the
\* one they name, with ids that are unique, with column ids that two tables
\* share, and with a table id that two tables share.
SharedColumnIdTables ==
    <<Table("t1", "users",
            <<Column("c1", "id", "INT", FALSE, TRUE, TRUE, FALSE),
              Column("c2", "email", "TEXT", FALSE, FALSE, FALSE, TRUE)>>),
      Table("t2", "posts",
            <<Column("c1", "id", "INT", FALSE, TRUE, TRUE, FALSE),
              Column("c2", "user_id", "INT", FALSE, FALSE, FALSE, FALSE)>>)>>

SharedTableIdTables ==
    <<Table("t1", "users",
            <<Column("c1", "id", "INT", FALSE, TRUE, TRUE, FALSE)>>),
      Table("t1", "posts",
            <<Column("c2", "user_id", "INT", FALSE, FALSE, FALSE, FALSE)>>)>>

CrossedInputs ==
    {SchemaData(SchemaBlog.Tables,
        <<ForeignKey("f5", "", "t2", "c2", "t1", "c1", "", "")>>),
     SchemaData(SharedColumnIdTables,
        <<ForeignKey("f6", "", "t2", "c2", "t1", "c1", "CASCADE", "")>>),
     SchemaData(SharedColumnIdTables,
        <<ForeignKey("f7", "", "t1", "c2", "t2", "c1", "", "")>>),
     SchemaData(SharedTableIdTables,
        <<ForeignKey("f8", "", "t1", "c2", "t1", "c1", "", "")>>)}

GenInputs ==
    StructuredInputs \cup ColumnInputs \cup ForeignKeyInputs \cup CrossedInputs

\* A variant of the generator that keeps its statements between invocations.
InvokeKeeping(schemaData, earlier) ==
    IF earlier = <<>>
    THEN [tables |-> GenerateCreateTables(schemaData),
          foreignKeys |-> GenerateForeignKeys(schemaData)]
    ELSE [tables |-> earlier[Len(earlier)].tables \o GenerateCreateTables(schemaData),
          foreignKeys |-> GenerateForeignKeys(schemaData)]

\* One invocation of the generator, after the earlier invocations: the
\* sqlGeneratorService has no field, and nothing of an invocation is kept.
Invoke(schemaData, earlier) ==
    [tables |-> GenerateCreateTables(schemaData),
     foreignKeys |-> GenerateForeignKeys(schemaData)]

Generate ==
    /\ Len(generated) < MaxInvocations
    /\ generated' = Append(generated, Invoke(input, generated))
    /\ UNCHANGED <<input, validated, lifecycleVars, svcVars, ctxVars>>

Validate ==
    /\ validated = <<>>
    /\ validated' = <<ValidateSchema(input)>>
    /\ UNCHANGED <<input, generated, lifecycleVars, svcVars, ctxVars>>

GenInit ==
    /\ input \in GenInputs
    /\ generated = <<>>
    /\ validated = <<>>
    /\ dbs = [n \in DbNames |-> NoDb]
    /\ store = [id \in SchemaIds |-> NoSchema]
    /\ RequestsInit
    /\ CallsInit

GenNext == Generate \/ Validate

SpecGen == GenInit /\ [][GenNext]_vars

(***************************************************************************)
(* Properties of RegenerateDatabase.                                       *)
(***************************************************************************)

TableStatements(c) == GenerateCreateTables(arg[c].schemaData)
FkStatements(c) == GenerateForeignKeys(arg[c].schemaData)
Returned(c) == pc[c] \in {"done", "error"}
Last(seq) == seq[Len(seq)]
Front(seq) == SubSeq(seq, 1, Len(seq) - 1)
IsPrefix(s, t) == Len(s) <= Len(t) /\ SubSeq(t, 1, Len(s)) = s

\* C1: in every run of RegenerateDatabase, when an ALTER TABLE ... ADD
\* CONSTRAINT statement is executed, every CREATE TABLE statement generated
\* for the schema has been executed before it and has succeeded, and no
\* CREATE TABLE statement executed before it has failed.
C1_TablesBeforeForeignKeys ==
    \A c \in Calls : \A i \in 1..Len(log[c]) :
        log[c][i].stmt.op = "ALTER TABLE" =>
            /\ \A k \in 1..Len(TableStatements(c)) :
                  \E j \in 1..(i - 1) :
                      log[c][j] = [stmt |-> TableStatements(c)[k], ok |-> TRUE]
            /\ \A j \in 1..(i - 1) :
                  log[c][j].stmt.op = "CREATE TABLE" => log[c][j].ok

\* A call has executed a foreign-key statement of a schema of two tables.
C1_Witness ==
    \E c \in Calls :
        /\ Len(TableStatements(c)) = 2
        /\ \E i \in 1..Len(log[c]) : log[c][i].stmt.op = "ALTER TABLE"

\* The round trips of a call in which nothing after the drop fails.
AllSucceeded(c) ==
    LET name == arg[c].databaseName
        expected == <<CreateStatement(name), ConnectRequest(name)>>
                    \o TableStatements(c) \o FkStatements(c)
    IN /\ Len(log[c]) = 1 + Len(expected)
       /\ \A k \in 1..Len(expected) :
             log[c][k + 1] = [stmt |-> expected[k], ok |-> TRUE]

\* C3: RegenerateDatabase returns success if and only if CREATE DATABASE,
\* the connection and every generated CREATE TABLE and foreign-key
\* statement succeeded, and it returns an error if and only if one of those
\* failed; the outcome of the drop is in neither condition.
C3_SuccessIffAllSucceeded ==
    \A c \in Calls :
        Returned(c) =>
            /\ (pc[c] = "done") = AllSucceeded(c)
            /\ (pc[c] = "done") = (result[c] = NoError)
            /\ (pc[c] = "error") = (\E k \in 2..Len(log[c]) : ~log[c][k].ok)

\* A call on a name that did not exist succeeded although its drop failed.
C3_Witness ==
    \E c \in Calls :
        /\ pc[c] = "done"
        /\ ~db0[c].exists
        /\ ~log[c][1].ok
        /\ FkStatements(c) # <<>>

\* C4: a failed drop is not fatal: right after it the call is about to
\* issue CREATE DATABASE with no error set, and its next round trip is
\* CREATE DATABASE.
C4_DropFailureNotFatal ==
    \A c \in Calls :
        (log[c] # <<>> /\ ~log[c][1].ok) =>
            /\ log[c][1].stmt = DropStatement(arg[c].databaseName)
            /\ IF Len(log[c]) = 1
               THEN pc[c] = "creating" /\ result[c] = NoError
               ELSE log[c][2].stmt = CreateStatement(arg[c].databaseName)

\* A call whose drop failed has gone on to issue CREATE DATABASE.
C4_Witness ==
    \E c \in Calls :
        /\ Len(log[c]) >= 2
        /\ ~log[c][1].ok
        /\ log[c][2].stmt.op = "CREATE DATABASE"

\* C5: when CREATE DATABASE fails, the call has returned the error "failed
\* to create database", CREATE DATABASE is its last round trip (no
\* connection attempt, no statement) and it holds no connection.
C5_CreateFailureAborts ==
    \A c \in Calls : \A i \in 1..Len(log[c]) :
        (log[c][i].stmt.op = "CREATE DATABASE" /\ ~log[c][i].ok) =>
            /\ pc[c] = "error"
            /\ result[c].msg = "failed to create database"
            /\ i = Len(log[c])
            /\ conn[c] = "none"

\* CREATE DATABASE failed on a name collision: the drop had failed and the
\* database was there.
C5_Witness ==
    \E c \in Calls :
        /\ Len(log[c]) = 2
        /\ ~log[c][1].ok
        /\ ~log[c][2].ok
        /\ db0[c].exists
        /\ pc[c] = "error"

\* C6: when a CREATE TABLE or foreign-key statement fails, the call has
\* returned an error that carries that statement and names its loop, and
\* the failed statement is the last round trip of the call: no statement
\* after it is executed.
C6_FirstFailureAborts ==
    \A c \in Calls : \A k \in 1..Len(log[c]) :
        (log[c][k].stmt.op \in {"CREATE TABLE", "ALTER TABLE"} /\ ~log[c][k].ok) =>
            /\ pc[c] = "error"
            /\ k = Len(log[c])
            /\ log[c][k].stmt = (TableStatements(c) \o FkStatements(c))[k - 3]
            /\ result[c].statement = <<log[c][k].stmt>>
            /\ result[c].msg = IF log[c][k].stmt.op = "CREATE TABLE"
                               THEN "failed to execute table statement"
                               ELSE "failed to execute foreign key statement"

\* The second CREATE TABLE of a schema with a foreign key failed.
C6_Witness ==
    \E c \in Calls :
        /\ Len(log[c]) = 5
        /\ log[c][5].stmt.op = "CREATE TABLE"
        /\ ~log[c][5].ok
        /\ FkStatements(c) # <<>>

HappyPath ==
    <<"idle", "dropping", "creating", "connecting", "executing-tables",
      "executing-fks", "done">>

\* The call is about to make the round trip of the step it is at.
RoundTripPending(c) ==
    \/ pc[c] \in {"dropping", "creating", "connecting"}
    \/ pc[c] = "executing-tables" /\ idx[c] <= Len(TableStatements(c))
    \/ pc[c] = "executing-fks" /\ idx[c] <= Len(FkStatements(c))

\* The call can enter the error state with its next step.
CanFail(c) == ENABLED (RegenerateStep(c) /\ pc'[c] = "error")

\* The states a call has been in are a prefix of the happy path, or such a
\* prefix that ends at one of the steps in from, followed by error.
InOrder(c, from) ==
    \/ IsPrefix(trace[c], HappyPath)
    \/ /\ Last(trace[c]) = "error"
       /\ IsPrefix(Front(trace[c]), HappyPath)
       /\ Last(Front(trace[c])) \in from

\* C7 as stated: the states are passed in order, done and error are
\* terminal, and error can be entered from each of the five steps, dropping
\* included.
C7_ErrorFromEveryStep ==
    \A c \in Calls :
        /\ InOrder(c, {"dropping", "creating", "connecting", "executing-tables",
                       "executing-fks"})
        /\ Returned(c) => ~ENABLED RegenerateStep(c)
        /\ RoundTripPending(c) => CanFail(c)

\* C7, amended: a call passes idle, dropping, creating, connecting,
\* executing-tables, executing-fks, done in that order without skipping or
\* revisiting a state; done and error are terminal; error can be entered
\* from creating, connecting, executing-tables and executing-fks whenever
\* the step has a round trip to make, and is never entered from dropping.
C7_StateMachine ==
    \A c \in Calls :
        /\ InOrder(c, {"creating", "connecting", "executing-tables", "executing-fks"})
        /\ Returned(c) => ~ENABLED RegenerateStep(c)
        /\ (RoundTripPending(c) /\ pc[c] # "dropping") => CanFail(c)
        /\ pc[c] = "dropping" => ~CanFail(c)

\* One call has passed every state up to done, and another has entered
\* error from executing-fks.
C7_Witness ==
    \E c, d \in Calls :
        /\ trace[c] = HappyPath
        /\ Len(trace[d]) = 7
        /\ trace[d][6] = "executing-fks"
        /\ trace[d][7] = "error"

(***************************************************************************)
(* RegenerateDatabase run alone, from first to last step with no other     *)
(* call: the reference the concurrent runs are compared with.  A plan says *)
(* which round trips the environment fails: the drop, and the failAt-th    *)
(* round trip after it (0: none).                                          *)
(***************************************************************************)

RECURSIVE AloneStatements(_, _, _, _, _)
AloneStatements(stmts, k, nTables, failAt, db) ==
    IF k > Len(stmts) THEN [result |-> NoError, db |-> db]
    ELSE IF failAt # 2 + k /\ StatementAccepted(db, stmts[k])
         THEN AloneStatements(stmts, k + 1, nTables, failAt,
                              ApplyStatement(db, stmts[k]))
         ELSE [result |->
                  [msg |-> IF k <= nTables
                           THEN "failed to execute table statement"
                           ELSE "failed to execute foreign key statement",
                   statement |-> <<stmts[k]>>],
               db |-> db]

Alone(schemaData, start, plan) ==
    LET dropped == IF plan.dropOk THEN NoDb ELSE start
        tables == GenerateCreateTables(schemaData)
    IN IF plan.failAt = 1 \/ dropped.exists
       THEN [result |-> [msg |-> "failed to create database", statement |-> <<>>],
             db |-> dropped]
       ELSE IF plan.failAt = 2
            THEN [result |-> [msg |-> "failed to connect to new database",
                              statement |-> <<>>],
                  db |-> EmptyDb]
            ELSE AloneStatements(tables \o GenerateForeignKeys(schemaData), 1,
                                 Len(tables), plan.failAt, EmptyDb)

AloneOutcomes(schemaData, start) ==
    {Alone(schemaData, start, plan) :
        plan \in [dropOk : BOOLEAN,
                  failAt : 0..(2 + Len(schemaData.Tables) + Len(schemaData.ForeignKeys))]}

\* C9: when the calls have different target names, every call that has
\* returned has returned a result, and left its target database in a
\* state, that the same call run alone from the same target database can
\* return and leave.
C9_DifferentNamesIndependent ==
    \A c \in Calls :
        (/\ Returned(c)
         /\ \A d \in Calls \ {c} : arg[d].databaseName # arg[c].databaseName)
        => [result |-> result[c], db |-> dbs[arg[c].databaseName]]
              \in AloneOutcomes(arg[c].schemaData, db0[c])

\* Two calls on different names were in flight together and both returned,
\* one with success and one with an error.
C9_Witness ==
    /\ arg[1].databaseName # arg[2].databaseName
    /\ 2 \in peers[1]
    /\ pc[1] = "done"
    /\ pc[2] = "error"
    /\ Len(log[2]) > Len(log[1])
    /\ arg[1].schemaData # arg[2].schemaData

\* C10: no call is excluded by another: a call can begin on any database
\* name whatever the other calls are doing, also one in flight on that
\* name, and a call in flight can always take its next step.
C10_NoMutualExclusion ==
    \A c \in Calls :
        /\ pc[c] = "idle" =>
              \A n \in DbNames :
                  ENABLED (\E sd \in LifecycleSchemas : Begin(c, sd, n))
        /\ InFlight(c) => ENABLED RegenerateStep(c)

\* Two calls on the same name were in flight at once; one dropped the
\* database the other had created and not yet connected to, no connection
\* was broken, both returned success, and the database matches the schema
\* description of neither.
C10_Witness ==
    \E c, d \in Calls :
        /\ c # d
        /\ arg[c].databaseName = arg[d].databaseName
        /\ d \in peers[c]
        /\ pc[c] = "done" /\ pc[d] = "done"
        /\ conn[c] = "open" /\ conn[d] = "open"
        /\ dbs[arg[c].databaseName] # DescribedDb(arg[c].schemaData)
        /\ dbs[arg[c].databaseName] # DescribedDb(arg[d].schemaData)

\* No other call has begun on the database name of call c.
OnlyCallOn(c) ==
    \A d \in Calls \ {c} :
        pc[d] = "idle" \/ arg[d].databaseName # arg[c].databaseName

\* C11: with no other call on the same name, whatever the target database
\* was before (absent, built from an older description, partially built),
\* a call that returned success has left the target database with exactly
\* the tables of its schema description and exactly the constraints of its
\* resolvable foreign keys, and nothing of the prior state.
C11_SuccessLeavesDescribedDb ==
    \A c \in Calls :
        pc[c] = "done" /\ OnlyCallOn(c)
        => dbs[arg[c].databaseName] = DescribedDb(arg[c].schemaData)

\* A call succeeded, alone on its name, on a database that held a table its
\* schema description does not have.
C11_Witness ==
    \E c \in Calls :
        /\ pc[c] = "done" /\ OnlyCallOn(c)
        /\ db0[c].exists
        /\ \E t \in db0[c].tables : t \notin Range(TableStatements(c))

\* The statements of kind op that call c executed with success.
Succeeded(c, kind) ==
    {log[c][i].stmt : i \in {j \in 1..Len(log[c]) :
                                log[c][j].ok /\ log[c][j].stmt.op = kind}}

\* Call c returned the error of a CREATE TABLE or ALTER TABLE statement.
FailedAtStatement(c) ==
    /\ pc[c] = "error"
    /\ Last(log[c]).stmt.op \in {"CREATE TABLE", "ALTER TABLE"}

\* C12: no rollback on failure: when a statement of a call fails (no other
\* call being on the same name), the target database still exists and
\* holds exactly the tables and constraints of the statements of the call
\* that succeeded before the failure.
C12_NoRollback ==
    \A c \in Calls :
        FailedAtStatement(c) /\ OnlyCallOn(c)
        => dbs[arg[c].databaseName] =
              [exists |-> TRUE,
               tables |-> Succeeded(c, "CREATE TABLE"),
               constraints |-> Succeeded(c, "ALTER TABLE")]

\* A statement failed after a statement of the same call had succeeded.
C12_Witness ==
    \E c \in Calls :
        /\ FailedAtStatement(c) /\ OnlyCallOn(c)
        /\ Succeeded(c, "CREATE TABLE") # {}

\* The most round trips a call makes: the drop, the create, the connect
\* and one for each generated statement.
MaxRoundTrips(c) == 3 + Len(TableStatements(c)) + Len(FkStatements(c))

\* C13: if every round trip eventually returns, every call that has begun
\* eventually returns, with success or with its first failure; on the way
\* it makes no round trip twice (no loop, no retry) and nothing takes it
\* back to idle (no cancellation).
C13_Terminates ==
    /\ \A c \in Calls : (pc[c] = "dropping") ~> Returned(c)
    /\ [](\A c \in Calls :
            /\ Len(log[c]) <= MaxRoundTrips(c)
            /\ \A i, j \in 1..Len(log[c]) :
                  log[c][i].stmt = log[c][j].stmt => i = j)
    /\ [][\A c \in Calls : pc[c] # "idle" => pc'[c] # "idle"]_vars

\* A call that began has returned after a failure, another after success.
C13_Witness ==
    /\ \E c \in Calls : pc[c] = "error" /\ Len(log[c]) >= 3
    /\ \E c \in Calls : pc[c] = "done"

\* The operations of a call in the order RegenerateDatabase is to issue
\* them.
Plan(c) ==
    LET name == arg[c].databaseName IN
    <<DropStatement(name), CreateStatement(name), ConnectRequest(name)>>
    \o TableStatements(c) \o FkStatements(c)

\* C26: within one call of RegenerateDatabase the operations are issued one
\* at a time in the order drop, create, connect, the table statements in
\* list order, the foreign-key statements in list order: the i-th round
\* trip of a call is the i-th operation of that order, so that none is
\* issued twice; a step of a call issues at most one operation, after the
\* one before it has returned; and every operation before the last one
\* issued, the drop aside, has succeeded.
C26_OneAtATimeInOrder ==
    /\ [](\A c \in Calls :
            /\ Len(log[c]) <= Len(Plan(c))
            /\ \A i \in 1..Len(log[c]) : log[c][i].stmt = Plan(c)[i]
            /\ \A i \in 2..(Len(log[c]) - 1) : log[c][i].ok)
    /\ [][\A c \in Calls :
            pc[c] # "idle" =>
               \/ log'[c] = log[c]
               \/ /\ Len(log'[c]) = Len(log[c]) + 1
                  /\ SubSeq(log'[c], 1, Len(log[c])) = log[c]]_vars

\* A call has issued all six operations of a schema of two tables and a
\* foreign key while another call was in flight.
C26_Witness ==
    \E c \in Calls :
        /\ pc[c] = "done" /\ peers[c] # {}
        /\ Len(TableStatements(c)) = 2 /\ Len(FkStatements(c)) = 1
        /\ Len(log[c]) = 6

(***************************************************************************)
(* Properties of the schema service and the database handler.              *)
(***************************************************************************)

\* The schema description a request works on fails validation.
Rejected(c) == ~ValidateSchema(arg[c].schemaData).Valid

\* C2: a schema description the validator reports an error for is never
\* materialized: no call of RegenerateDatabase made for a request of
\* CreateSchema, UpdateSchema or the regenerate endpoint makes a round trip
\* to the server (DROP DATABASE, CREATE DATABASE, DDL) for it, and no
\* column of it takes the generator's fallback type.
C2_InvalidNeverMaterialized ==
    \A c \in Calls :
        op[c] # "none" /\ Rejected(c)
        => /\ log[c] = <<>>
           /\ pc[c] \notin {"executing-tables", "executing-fks", "done"}

\* C8: whenever RegenerateDatabase failed on behalf of a schema, inside
\* CreateSchema, inside UpdateSchema or in the regenerate handler, the
\* status of the schema's row in the record store is "error" at the moment
\* the operation returns.
C8_FailureMarksError ==
    [][\A r \in Calls :
          phase[r] = "regenerating" /\ pc[r] = "error" /\ phase'[r] = "returned"
          => store'[schema[r].ID].Status = "error"]_vars

\* The status a row has while its database is regenerated.
InProgress(operation) ==
    IF operation = "CreateSchema" THEN "creating" ELSE "updating"

Writes(r) == op[r] \in {"CreateSchema", "UpdateSchema"}

\* C25: CreateSchema and UpdateSchema write the row, with the status
\* "creating" / "updating" and the new definition, before the first step of
\* the lifecycle: no round trip to the server is made while the row is still
\* to be written, the step that starts RegenerateDatabase leaves the row in
\* the record store as said, and a request whose write failed has returned
\* without a round trip to the server.
C25_PersistBeforeLifecycle ==
    /\ [](\A r \in Calls :
            Writes(r) /\ (phase[r] = "persist" \/ pc[r] = "idle")
            => log[r] = <<>> /\ pc[r] = "idle")
    /\ [][\A r \in Calls :
            Writes(r) /\ pc[r] = "idle" /\ pc'[r] # "idle"
            => /\ phase[r] = "persist" /\ pc'[r] = "dropping" /\ log'[r] = <<>>
               /\ store'[schema[r].ID] = schema[r]
               /\ schema[r].Status = InProgress(op[r])
               /\ schema[r].SchemaDefinition = arg'[r].schemaData
               /\ schema[r].DatabaseName = arg'[r].databaseName]_vars

\* CreateSchema has had its database dropped and is about to create it, and
\* the row is in the record store with status "creating".
C25_Witness ==
    \E r \in Calls :
        /\ op[r] = "CreateSchema" /\ pc[r] = "creating" /\ Len(log[r]) = 1
        /\ store[schema[r].ID].Status = "creating"
        /\ store[schema[r].ID].SchemaDefinition = arg[r].schemaData

(***************************************************************************)
(* Properties of the validator and the generator.                          *)
(***************************************************************************)

\* The <<i, j>> of the columns of the input of an unsupported data type, and
\* the i of its tables without a primary-key column.
ColumnsAt ==
    UNION {{<<i, j>> : j \in 1..Len(input.Tables[i].Columns)} :
              i \in 1..Len(input.Tables)}

BadColumns ==
    {p \in ColumnsAt :
        input.Tables[p[1]].Columns[p[2]].DataType \notin SupportedDataTypes}

KeylessTables ==
    {i \in 1..Len(input.Tables) :
        \A j \in 1..Len(input.Tables[i].Columns) :
            ~input.Tables[i].Columns[j].PrimaryKey}

Before(p, q) == p[1] < q[1] \/ (p[1] = q[1] /\ p[2] < q[2])

TableIds == {input.Tables[i].ID : i \in 1..Len(input.Tables)}
ColumnIds == {input.Tables[p[1]].Columns[p[2]].ID : p \in ColumnsAt}
\* The names of the tables, and of the columns, of the input with an id.
TableNamed(id) ==
    {input.Tables[i].Name : i \in {l \in 1..Len(input.Tables) : input.Tables[l].ID = id}}
ColumnNamed(id) ==
    {input.Tables[p[1]].Columns[p[2]].Name :
        p \in {q \in ColumnsAt : input.Tables[q[1]].Columns[q[2]].ID = id}}

\* The positions of the foreign keys of the input whose four ids are
\* present in it.
Resolvable ==
    {k \in 1..Len(input.ForeignKeys) :
        LET fk == input.ForeignKeys[k] IN
        /\ fk.SourceTableId \in TableIds /\ fk.TargetTableId \in TableIds
        /\ fk.SourceColumnId \in ColumnIds /\ fk.TargetColumnId \in ColumnIds}

\* C16: GenerateForeignKeys returns exactly one ALTER TABLE statement for
\* each foreign key whose source and target table ids and column ids are
\* all present in the schema, in input order, and nothing for a foreign key
\* with an id that is not: a dangling key neither fails the generation nor
\* takes away the statement of another key.
C16_DanglingForeignKeysSkipped ==
    \A g \in 1..Len(generated) :
        LET out == generated[g].foreignKeys IN
        /\ Len(out) = Cardinality(Resolvable)
        /\ \A k \in Resolvable :
              LET fk == input.ForeignKeys[k]
                  stmt == out[1 + Cardinality({l \in Resolvable : l < k})]
              IN /\ stmt.op = "ALTER TABLE"
                 /\ stmt.table \in TableNamed(fk.SourceTableId)
                 /\ stmt.column \in ColumnNamed(fk.SourceColumnId)
                 /\ stmt.refTable \in TableNamed(fk.TargetTableId)
                 /\ stmt.refColumn \in ColumnNamed(fk.TargetColumnId)

\* The generator was invoked on a dangling foreign key followed by a
\* resolvable one, and returned the one statement.
C16_Witness ==
    /\ generated # <<>>
    /\ Len(input.ForeignKeys) = 2
    /\ Resolvable = {2}
    /\ Len(generated[1].foreignKeys) = 1

Permuted(seq, f) == [i \in 1..Len(seq) |-> seq[f[i]]]

\* C18: GenerateCreateTables returns exactly one CREATE TABLE statement for
\* each table, in the order of the tables; the statement of a table is the
\* one the table yields alone; and on the tables in any other order the
\* output is the same statements in that order.
C18_OneStatementPerTableInOrder ==
    \A g \in 1..Len(generated) :
        LET out == generated[g].tables IN
        /\ Len(out) = Len(input.Tables)
        /\ \A i \in 1..Len(out) :
              /\ out[i].op = "CREATE TABLE"
              /\ out[i].table = input.Tables[i].Name
              /\ <<out[i]>> =
                    GenerateCreateTables(SchemaData(<<input.Tables[i]>>, <<>>))
        /\ \A f \in Permutations(1..Len(input.Tables)) :
              GenerateCreateTables(
                  SchemaData(Permuted(input.Tables, f), input.ForeignKeys))
              = Permuted(out, f)

\* The generator was invoked on two tables that differ.
C18_Witness ==
    /\ generated # <<>>
    /\ Len(input.Tables) = 2
    /\ generated[1].tables[1] # generated[1].tables[2]

\* The positions of the columns of a table that are flagged primaryKey,
\* and of those that are unique and not primaryKey.
KeyColumns(table) ==
    {j \in 1..Len(table.Columns) : table.Columns[j].PrimaryKey}
UniqueColumns(table) ==
    {j \in 1..Len(table.Columns) :
        table.Columns[j].Unique /\ ~table.Columns[j].PrimaryKey}

\* C19: the CREATE TABLE statement of a table has one PRIMARY KEY clause that
\* lists all columns flagged primaryKey, in column order, if there is such
\* a column, and no PRIMARY KEY clause if there is none; it has one UNIQUE
\* clause for each column that is unique and not primaryKey, and none for a
\* primary-key column.
C19_PrimaryKeyAndUniqueClauses ==
    \A g \in 1..Len(generated) : \A i \in 1..Len(input.Tables) :
        LET table == input.Tables[i]
            stmt == generated[g].tables[i]
        IN
        /\ Len(stmt.primaryKey) = Cardinality(KeyColumns(table))
        /\ \A j \in KeyColumns(table) :
              stmt.primaryKey[1 + Cardinality({l \in KeyColumns(table) : l < j})]
                 = table.Columns[j].Name
        /\ Len(stmt.unique) = Cardinality(UniqueColumns(table))
        /\ \A j \in UniqueColumns(table) :
              stmt.unique[1 + Cardinality({l \in UniqueColumns(table) : l < j})]
                 = table.Columns[j].Name

\* The generator was invoked on a table with two primary-key columns, and
\* returned one clause with both.
C19_Witness ==
    /\ generated # <<>>
    /\ \E i \in 1..Len(input.Tables) :
          /\ Cardinality(KeyColumns(input.Tables[i])) = 2
          /\ Len(generated[1].tables[i].primaryKey) = 2

\* A default value as the DEFAULT clause is to show it: a string between
\* single quotes, a boolean in lower case, a number as its digits.
Rendered(value) ==
    CASE value.kind = "string" -> "'" \o value.s \o "'"
      [] value.kind = "bool" -> IF value.b THEN "true" ELSE "false"
      [] value.kind = "number" -> ToString(value.n)

ImplicitDefaults == {"gen_random_uuid()", "CURRENT_TIMESTAMP"}

\* C20: in a generated column definition, a defaultValue that is set (a
\* string, the empty string included, a boolean or a number) yields a DEFAULT
\* clause with that value, and the implicit default of the type
\* (gen_random_uuid() for UUID, CURRENT_TIMESTAMP for TIMESTAMP) appears only
\* when defaultValue is not set.
C20_ExplicitDefaultRendered ==
    \A g \in 1..Len(generated) : \A i \in 1..Len(input.Tables) :
        \A j \in 1..Len(input.Tables[i].Columns) :
            LET column == input.Tables[i].Columns[j]
                def == generated[g].tables[i].columns[j]
            IN
            /\ column.DefaultValue # NilValue
               => def.defaults = <<Rendered(column.DefaultValue)>>
            /\ (\E d \in 1..Len(def.defaults) :
                   def.defaults[d] \in ImplicitDefaults)
               => column.DefaultValue = NilValue

\* The statement GenerateForeignKeys returned in invocation g for the
\* foreign key at position k of the input, k resolvable.
StatementOf(g, k) ==
    generated[g].foreignKeys[1 + Cardinality({l \in Resolvable : l < k})]

\* C21: every foreign-key statement of GenerateForeignKeys has an ON DELETE
\* and an ON UPDATE action among CASCADE, RESTRICT, SET NULL and NO ACTION:
\* the given one if it is among them, RESTRICT if it is absent or is not;
\* its constraint name is the given name if that is not empty, and
\* fk_<source table name>_<source column name> otherwise.
C21_ForeignKeyActionsAndName ==
    \A g \in 1..Len(generated) : \A k \in Resolvable :
        LET fk == input.ForeignKeys[k]
            stmt == StatementOf(g, k)
            actions == {"CASCADE", "RESTRICT", "SET NULL", "NO ACTION"}
        IN
        /\ stmt.onDelete \in actions /\ stmt.onUpdate \in actions
        /\ stmt.onDelete = (IF fk.OnDelete \in actions THEN fk.OnDelete ELSE "RESTRICT")
        /\ stmt.onUpdate = (IF fk.OnUpdate \in actions THEN fk.OnUpdate ELSE "RESTRICT")
        /\ fk.Name # "" => stmt.constraint = fk.Name
        /\ fk.Name = "" => stmt.constraint = "fk_" \o stmt.table \o "_" \o stmt.column

\* The generator was invoked on a foreign key with no name and valid
\* actions and on a named one with an action outside the four and an absent
\* one, and returned both statements.
C21_Witness ==
    /\ generated # <<>>
    /\ Len(input.ForeignKeys) = 2 /\ Resolvable = {1, 2}
    /\ input.ForeignKeys[1].Name = ""
    /\ input.ForeignKeys[1].OnDelete = "CASCADE"
    /\ generated[1].foreignKeys[1].constraint = "fk_posts_user_id"
    /\ input.ForeignKeys[2].Name # ""
    /\ input.ForeignKeys[2].OnDelete = "DROP" /\ input.ForeignKeys[2].OnUpdate = ""
    /\ generated[1].foreignKeys[2].onDelete = "RESTRICT"
    /\ generated[1].foreignKeys[2].onUpdate = "RESTRICT"

\* The names of the columns of the tables of the input with an id and a
\* name.
ColumnNamesOf(tableId, tableName) ==
    {input.Tables[p[1]].Columns[p[2]].Name :
        p \in {q \in ColumnsAt : /\ input.Tables[q[1]].ID = tableId
                                 /\ input.Tables[q[1]].Name = tableName}}

\* C28: every ALTER TABLE statement of GenerateForeignKeys names a source
\* column that is a column of the source table it names and a target column
\* that is a column of the target table it names, also when tables share
\* column ids or a table id.
C28_ColumnsBelongToTheirTables ==
    \A g \in 1..Len(generated) : \A k \in Resolvable :
        LET fk == input.ForeignKeys[k]
            stmt == StatementOf(g, k)
        IN
        /\ stmt.column \in ColumnNamesOf(fk.SourceTableId, stmt.table)
        /\ stmt.refColumn \in ColumnNamesOf(fk.TargetTableId, stmt.refTable)

(***************************************************************************)
(* Properties of the requests served one after the other.                  *)
(***************************************************************************)

\* Request r asked for the status of the database of a row it found, and
\* was answered.
Probed(r) ==
    /\ op[r] = "GetDatabaseStatus" /\ phase[r] = "returned"
    /\ schema[r].ID # ""

ProbeConnected(r) == log[r][1].ok
ProbeCounted(r) == Len(log[r]) = 2 /\ log[r][2].ok
TablesOf(r) == Cardinality(dbs[schema[r].DatabaseName].tables)

\* A status request neither fails nor writes: it is answered with one
\* status record, and the step that answers it leaves every database as
\* it is.
ProbeAnswers ==
    /\ [](\A r \in Calls : Probed(r) =>
             resp[r] = "ok" /\ Len(reply[r].status) = 1)
    /\ [][\A r \in Calls :
             op'[r] = "GetDatabaseStatus" /\ op[r] # "GetDatabaseStatus"
             => dbs' = dbs]_vars

\* C22 as stated: GetDatabaseStatus reports status "error" with table
\* count 0 when the connection fails, and the number of tables of the
\* database in every other case.
C22_StatusOrTableCount ==
    \A r \in Calls : Probed(r) /\ reply[r].status # <<>> =>
        LET status == reply[r].status[1] IN
        IF ProbeConnected(r)
        THEN status.TableCount = TablesOf(r)
        ELSE status.Status = "error" /\ status.TableCount = 0

\* C22: GetDatabaseStatus never returns an error and never changes the
\* target database.  When the connection fails it reports status "error"
\* with table count 0; when the connection succeeds it reports status
\* "healthy" with the number of tables of the database, or with table count
\* 0 if the count query fails.
C22_ProbeReports ==
    /\ ProbeAnswers
    /\ [](\A r \in Calls : Probed(r) /\ reply[r].status # <<>> =>
             LET status == reply[r].status[1] IN
             /\ ~ProbeConnected(r)
                => status.Status = "error" /\ status.TableCount = 0
             /\ ProbeConnected(r)
                => /\ status.Status = "healthy"
                   /\ status.TableCount = IF ProbeCounted(r) THEN TablesOf(r) ELSE 0)

\* A status request was answered for a database that has tables and could
\* not be connected to.
C22_Witness ==
    \E r \in Calls :
        /\ Probed(r) /\ resp[r] = "ok"
        /\ ~ProbeConnected(r)
        /\ TablesOf(r) > 0
        /\ reply[r].status[1].Status = "error"

\* The rows of the record store, deleted or not, and the users that own a
\* row with a database name.
Rows == {store[id] : id \in {i \in SchemaIds : store[i].ID = i}}
OwnersOf(databaseName) ==
    {row.UserID : row \in {w \in Rows : w.DatabaseName = databaseName}}

\* The request that is being served.
Serving(r) == caller[r] # "" /\ phase[r] # "returned"

\* C23: a user reaches only the schemas the user owns.  Whatever requests
\* the users send, (1) the rows and the database status a request is
\* answered with belong to rows of its user, (2) a row is changed only
\* while a request of its owner is served, and keeps its owner, (3) the
\* database a request sends DROP DATABASE, CREATE DATABASE, DDL or a status
\* query to belongs to a row of its user, and (4) a database of a row is
\* changed only while a request of the owner of the row is served.
C23_OwnSchemasOnly ==
    /\ [](\A r \in Calls :
            /\ \A row \in reply[r].schemas : row.UserID = caller[r]
            /\ \A i \in 1..Len(reply[r].status) :
                  store[reply[r].status[i].SchemaID].UserID = caller[r]
            /\ schema[r].ID # "" => schema[r].UserID = caller[r]
            /\ \A i \in 1..Len(log[r]) :
                  OwnersOf(IF pc[r] = "idle" THEN schema[r].DatabaseName
                           ELSE arg[r].databaseName) \subseteq {caller[r]})
    /\ [][\A id \in SchemaIds :
            store[id].ID = id /\ store'[id] # store[id]
            => /\ store'[id].UserID = store[id].UserID
               /\ \E r \in Calls : Serving(r) /\ caller[r] = store[id].UserID]_vars
    /\ [][\A n \in DbNames :
            dbs'[n] # dbs[n]
            => \A u \in OwnersOf(n) : \E r \in Calls : Serving(r) /\ caller[r] = u]_vars

\* Two users own a schema each, with its database, and the request of one
\* of them to regenerate has dropped and created a database while the row
\* and the database of the other are as they were.
C23_Witness ==
    \E r \in Calls, id \in SchemaIds :
        /\ op[r] = "Regenerate" /\ pc[r] = "connecting"
        /\ store[id].ID = id /\ ~store[id].Deleted
        /\ store[id].UserID \notin {"", caller[r]}
        /\ dbs[store[id].DatabaseName].exists
        /\ schema[r].ID \notin {"", id}

\* Request r deleted a schema: DeleteSchema found the row, deleted it and
\* answered 200.
Deleted(r) ==
    /\ op[r] = "DeleteSchema" /\ phase[r] = "returned" /\ resp[r] = "ok"
    /\ reply[r].id # "" /\ store[reply[r].id].Deleted

\* C24: after a successful DeleteSchema the target database of the deleted
\* schema does not exist.
C24_DeleteDropsDatabase ==
    \A r \in Calls :
        Deleted(r) => ~dbs[store[reply[r].id].DatabaseName].exists

\* CreateSchema or UpdateSchema of request r has returned after its call of
\* RegenerateDatabase.
Regenerated(r) ==
    /\ op[r] \in {"CreateSchema", "UpdateSchema"}
    /\ phase[r] = "returned" /\ pc[r] \in {"done", "error"}

\* C27: when CreateSchema or UpdateSchema returns success, the status of the
\* row in the record store is the status of the schema returned ("created",
\* "updated"), and after the operation has returned the status in the
\* record store is never "creating" or "updating", whether the writes to
\* the record store succeeded or not.
C27_StoredStatusIsReturnedStatus ==
    \A r \in Calls : Regenerated(r) =>
        /\ resp[r] = "ok" => store[schema[r].ID].Status = schema[r].Status
        /\ store[schema[r].ID].Status \notin {"creating", "updating"}

\* The rows that are not deleted.
LiveRows == {row \in Rows : ~row.Deleted}

\* The name is the name of a row of the user other than row id, deleted
\* or not: the case the record store refuses to write.
NameHeld(name, userID, id) ==
    \E row \in Rows : row.Name = name /\ row.UserID = userID /\ row.ID # id

\* Request r enters CreateSchema / UpdateSchema with this step.
Enters(r, operation) == op[r] = "none" /\ op'[r] = operation

\* Request r of CreateSchema / UpdateSchema makes its first write with this
\* step, or returns instead of making it.
FirstWrite(r) == Writes(r) /\ phase[r] = "persist" /\ phase'[r] # "persist"

\* C29: with the operations run one at a time, no two schemas of a user
\* that are not deleted have the same name.  CreateSchema with a name a
\* schema of the user has, and UpdateSchema with a name another schema of
\* the user has, return an error: at the name check if the lookup finds the
\* schema, at the first write otherwise; no step of such a request changes
\* a row or a database or makes a round trip to the server.
C29_NamesUniquePerUser ==
    /\ [](\A row, other \in LiveRows :
            row.UserID = other.UserID /\ row.Name = other.Name => row = other)
    /\ [][\A r \in Calls :
            Enters(r, "CreateSchema") \/ Enters(r, "UpdateSchema")
            => /\ store' = store /\ dbs' = dbs /\ log'[r] = <<>> /\ pc'[r] = "idle"
               /\ \/ phase'[r] = "returned" /\ resp'[r] = "error"
                  \/ phase'[r] = "persist"]_vars
    /\ [][\A r \in Calls :
            FirstWrite(r) /\ NameHeld(schema[r].Name, schema[r].UserID, schema[r].ID)
            => /\ store' = store /\ dbs' = dbs /\ log'[r] = <<>> /\ pc'[r] = "idle"
               /\ phase'[r] = "returned" /\ resp'[r] = "error"]_vars

\* A user with two live schemas asked to give one the name of the other,
\* and the request returned an error with no round trip to the server.
C29_Witness ==
    \E r \in Calls :
        /\ op[r] = "UpdateSchema" /\ phase[r] = "returned" /\ resp[r] = "error"
        /\ pc[r] = "idle" /\ log[r] = <<>>
        /\ \A id \in SchemaIds :
              store[id].ID = id /\ store[id].UserID = caller[r] /\ ~store[id].Deleted
        /\ store["s1"].Name # store["s2"].Name

\* UpdateSchema of request r has returned an error from its call of
\* RegenerateDatabase.
UpdateFailed(r) ==
    op[r] = "UpdateSchema" /\ phase[r] = "returned" /\ pc[r] = "error"

\* C30: UpdateSchema never changes the id, the owner or the database name
\* of a schema, and it writes the new definition before it regenerates: when
\* the regeneration has failed, the row in the record store has the new
\* definition and the status "error", and the target database is absent or
\* is not the whole database of the new definition.
C30_FailedUpdateKeepsNewDefinition ==
    /\ [](\A r \in Calls : UpdateFailed(r) =>
            LET row == store[schema[r].ID] IN
            /\ row.SchemaDefinition = arg[r].schemaData
            /\ row.Status = "error"
            /\ \/ ~dbs[row.DatabaseName].exists
               \/ dbs[row.DatabaseName] # DescribedDb(row.SchemaDefinition))
    /\ [][\A r \in Calls : \A id \in SchemaIds :
            op[r] = "UpdateSchema" /\ store[id].ID = id /\ store'[id] # store[id]
            => /\ store'[id].ID = store[id].ID
               /\ store'[id].UserID = store[id].UserID
               /\ store'[id].DatabaseName = store[id].DatabaseName]_vars

================================================================================
